---- MODULE Spec2Model ----
(***************************************************************************)
(* The import service of strapi-plugin-import-export-entries               *)
(* (server/services/import/import.js): importData, updateOrCreate and       *)
(* updateOrCreateRelation, run on the JavaScript event loop against a       *)
(* store (strapi.db.query) whose calls return or throw.                     *)
(*                                                                          *)
(* Every JavaScript object of the parsed batch is a node, named by its      *)
(* address: <<i>> is the i-th top-level datum, a \o <<r, k>> is the k-th    *)
(* object held by relation number r of the object at a.  heap[a] is the     *)
(* current content of that object (the code mutates it in place), data[a]   *)
(* its content as parsed.                                                   *)
(***************************************************************************)
EXTENDS Integers, Sequences, FiniteSets, TLC

\* Bounds of the explored inputs.
MaxRecords == 2      \* top-level records of a batch
MaxNested == 2       \* nested values (objects, array elements) of a batch

(***************************************************************************)
(* Values a field can hold.                                                 *)
(***************************************************************************)
Absent == [t |-> "absent", v |-> <<>>]          \* undefined: no such key
Null == [t |-> "null", v |-> <<>>]
Scalar(k) == [t |-> "scalar", v |-> <<k>>]      \* a number (an identifier)
Obj == [t |-> "obj", v |-> <<>>]                \* the nested object at child 1
Arr(n) == [t |-> "arr", v |-> <<n>>]            \* the array of children 1..n
Ids(s) == [t |-> "ids", v |-> s]                \* a fresh array of identifiers

ObjNode(id, f) == [kind |-> "obj", id |-> id, prim |-> 0, f |-> f]
PrimNode(k) == [kind |-> "prim", id |-> 0, prim |-> k, f |-> <<>>]

\* options.user and options.slug of the importData call.
user == [id |-> 9]
slug == "A"

\* getModelAttributes(slug, "relation"): the relation attributes of a model.
Relations(s) ==
  CASE s = "A" -> << [name |-> "createdBy", target |-> "U"],
                     [name |-> "items", target |-> "B"] >>
    [] s = "B" -> << [name |-> "updatedBy", target |-> "U"],
                     [name |-> "parent", target |-> "B"] >>
    [] OTHER -> << >>

Collections == {"A", "B", "U"}

Child(a, r, k) == a \o <<r, k>>
Parent(a) == SubSeq(a, 1, Len(a) - 2)

\* The model updateOrCreate is called with for the object at the first n
\* steps of address a: slug at the top (line 31), rel.target below (lines
\* 94 and 100).
RECURSIVE CollAt(_, _)
CollAt(a, n) == IF n = 1 THEN slug ELSE Relations(CollAt(a, n - 2))[a[n - 1]].target

Coll(a) == CollAt(a, Len(a))

\* data[relName] of a JavaScript value: a number has no such property.
Get(node, r) == IF node.kind = "prim" THEN Absent ELSE node.f[r]

\* data[relName] = val: on a number the assignment is silently dropped
\* (the module is not in strict mode).
Set(node, r, val) == IF node.kind = "prim" THEN node ELSE [node EXCEPT !.f[r] = val]

(***************************************************************************)
(* The parsed batches explored: every batch of at most MaxRecords records   *)
(* holding at most MaxNested nested values in all.                          *)
(***************************************************************************)
EmptyHeap == [a \in {} |-> 0]

\* Identifiers a record may carry: 0 is "no id" (falsy); the store starts
\* with row 1 in A and in B, so 1 exists and 2 does not.
InputIds(a, wide) ==
  IF wide THEN {0, 1, 2} ELSE IF Len(a) = 1 THEN {0} ELSE {0, 2}

\* What the input may hold in an audit field, without a nested value.
AuditInputs(a, wide) ==
  IF Len(a) = 1 /\ wide THEN {Absent, Null, Scalar(5)} ELSE {Absent}

\* What the input may hold in a relation field, without a nested value.
PlainInputs(a, wide) ==
  IF Len(a) = 1 /\ wide THEN {Absent, Null, Scalar(1), Arr(0)} ELSE {Absent}

IsAudit(rel) == rel.name \in {"createdBy", "updatedBy"}

RECURSIVE Objects(_, _, _, _), Fields(_, _, _, _, _), Values(_, _, _, _, _),
          ElemSeq(_, _, _, _, _, _), Element(_, _, _, _)
\* The heaps of one object at address a of model s with exactly n nested values.
Objects(a, s, n, wide) ==
  { (a :> ObjNode(id, fh[1])) @@ fh[2] :
      id \in InputIds(a, wide), fh \in Fields(a, s, Len(Relations(s)), n, wide) }

\* <<field values 1..r, heap of the nested values>>, n nested values in all.
Fields(a, s, r, n, wide) ==
  IF r = 0 THEN (IF n = 0 THEN { << <<>>, EmptyHeap >> } ELSE {})
  ELSE UNION { { << Append(p[1], vh[1]), p[2] @@ vh[2] >> :
                   vh \in Values(a, s, r, m, wide),
                   p \in Fields(a, s, r - 1, n - m, wide) } : m \in 0..n }

\* <<value of relation r, heap of its nested values>>, exactly n nested values.
Values(a, s, r, n, wide) ==
  LET rel == Relations(s)[r] IN
  IF IsAudit(rel)
  THEN IF n = 0 THEN { <<x, EmptyHeap>> : x \in AuditInputs(a, wide) }
       ELSE IF n = 1 /\ Len(a) = 1 /\ wide
            THEN { <<x, Child(a, r, 1) :> ObjNode(0, <<>>)>> : x \in {Obj, Arr(1)} }
            ELSE {}
  ELSE IF n = 0 THEN { <<x, EmptyHeap>> : x \in PlainInputs(a, wide) }
       ELSE { <<Obj, h>> : h \in Objects(Child(a, r, 1), rel.target, n - 1, wide) }
            \cup UNION { { <<Arr(k), h>> : h \in ElemSeq(a, s, r, k, n, wide) } : k \in 1..n }

\* The heaps of the array elements 1..k of relation r, n nested values in all.
ElemSeq(a, s, r, k, n, wide) ==
  IF k = 0 THEN (IF n = 0 THEN {EmptyHeap} ELSE {})
  ELSE UNION { { h1 @@ rest :
                   h1 \in Element(Child(a, r, k), Relations(s)[r].target, m, wide),
                   rest \in ElemSeq(a, s, r, k - 1, n - m, wide) } : m \in 1..(n - k + 1) }

\* One array element: an identifier (a number) or a nested object.
Element(c, s, m, wide) ==
  Objects(c, s, m - 1, wide) \cup (IF m = 1 /\ wide THEN {c :> PrimNode(1)} ELSE {})

\* The batches of k records, n nested values in all.
RECURSIVE Batches(_, _, _)
Batches(k, n, wide) ==
  IF k = 0 THEN (IF n = 0 THEN {EmptyHeap} ELSE {})
  ELSE UNION { { h1 @@ rest : h1 \in Objects(<<k>>, slug, m, wide),
                              rest \in Batches(k - 1, n - m, wide) } : m \in 0..n }

\* A record whose audit field is given holds at most one nested value in
\* its other relation.
Focused(h) ==
  h[<<1>>].f[1] = Absent \/ Cardinality({a \in DOMAIN h : Len(a) > 1 /\ a[2] # 1}) <= 1

\* One record: every shape with the audit field absent, the focused ones
\* with it given.
SingleInputs == { h \in UNION { Batches(1, n, TRUE) : n \in 0..MaxNested } : Focused(h) }

\* A batch of several records, in fewer shapes.
BatchInputs == UNION { Batches(k, n, FALSE) : k \in 2..MaxRecords, n \in 0..MaxNested }

(***************************************************************************)
(* The state.                                                               *)
(***************************************************************************)
VARIABLES
  data,        \* the parsed batch: address -> object, as parsed (never changes)
  heap,        \* address -> object, as it is now
  pc,          \* importData: "parse", "loop", "returned" or "threw"
  processed,   \* importData's processed array (line 28)
  report,      \* what importData returned
  status,      \* address -> where the updateOrCreate call on that object is
  rel,         \* address -> relation -> the updateOrCreateRelation promise
  entry,       \* address -> id of the entry updateOrCreate returned (0: none)
  error,       \* address -> the error updateOrCreate was rejected with
  calls,       \* address -> the store calls updateOrCreate issued for it
  store        \* model -> id -> stored row

vars == <<data, heap, pc, processed, report, status, rel, entry, error, calls, store>>

Nodes == DOMAIN data
N == Cardinality({a \in Nodes : Len(a) = 1})
NRel(a) == Len(Relations(Coll(a)))

NoError == [op |-> "none", node |-> <<>>]
StoreError(op, a) == [op |-> op, node |-> a]
\* The TypeError of line 96 when an entry of the array is undefined.
TypeError(a) == [op |-> "type", node |-> a]

Pending == [st |-> "pending", err |-> NoError]
Fulfilled == [st |-> "fulfilled", err |-> NoError]
Rejected(e) == [st |-> "rejected", err |-> e]

Row(payload, a) == [data |-> payload, by |-> a]
SeedRows == (1 :> Row(ObjNode(1, <<>>), <<>>))

InitialStore == [c \in Collections |-> IF c = "U" THEN EmptyHeap ELSE SeedRows]

Start(inputs) ==
  /\ data \in inputs
  /\ heap = data
  /\ pc = "parse"
  /\ processed = <<>>
  /\ report = [failures |-> <<>>]
  /\ status = [a \in DOMAIN data |-> "idle"]
  /\ rel = [a \in DOMAIN data |-> [r \in 1..NRel(a) |-> [st |-> "idle", err |-> NoError]]]
  /\ entry = [a \in DOMAIN data |-> 0]
  /\ error = [a \in DOMAIN data |-> NoError]
  /\ calls = [a \in DOMAIN data |-> <<>>]
  /\ store = InitialStore

(***************************************************************************)
(* updateOrCreateRelation, lines 86-103: which branch a field takes.        *)
(***************************************************************************)
\* Line 92 with an empty array taken as falsy.
Truthy_EmptyFalsy(val) ==
  \/ val.t \in {"obj", "ids"}
  \/ val.t \in {"arr", "scalar"} /\ val.v[1] # 0

Truthy(val) == val.t \in {"obj", "arr", "ids"} \/ (val.t = "scalar" /\ val.v[1] # 0)
IsArray(val) == val.t \in {"arr", "ids"}
TypeofObject(val) == val.t \in {"null", "obj", "arr", "ids"}

\* The branches without the test of line 88.
Branch_NoAudit(r, val) ==
  IF Truthy(val) /\ IsArray(val) THEN "array"
  ELSE IF Truthy(val) /\ TypeofObject(val) THEN "object"
  ELSE "none"

Branch(r, val) ==
  IF IsAudit(r) THEN "audit"
  ELSE IF Truthy(val) /\ IsArray(val) THEN "array"
  ELSE IF Truthy(val) /\ TypeofObject(val) THEN "object"
  ELSE "none"

BranchOf(a, r) == Branch(Relations(Coll(a))[r], Get(data[a], r))

\* The objects relation r of the object at a calls updateOrCreate on
\* (lines 94 and 100).
Kids(a, r) ==
  LET val == Get(data[a], r) IN
  CASE BranchOf(a, r) = "array" ->
         IF val.t = "arr" THEN {Child(a, r, k) : k \in 1..val.v[1]} ELSE {}
    [] BranchOf(a, r) = "object" -> {Child(a, r, 1)}
    [] OTHER -> {}

\* Every object a call of updateOrCreate(a) reaches before it first yields:
\* relations.map (line 55) calls updateOrCreateRelation, which calls
\* updateOrCreate on the nested objects, synchronously all the way down.
RECURSIVE Reach(_)
Reach(a) == {a} \cup UNION { UNION { Reach(c) : c \in Kids(a, r) } : r \in 1..NRel(a) }

\* Lines 88-90, run synchronously for every relation of the object.
\* Line 89 run for every relation, without the test of line 88.
AuditAssigned_All(a, node) ==
  IF node.kind = "prim" THEN node
  ELSE [node EXCEPT !.f = [r \in 1..Len(node.f) |-> Scalar(user.id)]]

AuditAssigned(a, node) ==
  IF node.kind = "prim" THEN node
  ELSE [node EXCEPT !.f = [r \in 1..Len(node.f) |->
          IF BranchOf(a, r) = "audit" THEN Scalar(user.id) ELSE node.f[r]]]

\* Lines 96 and 101 without the assignment: the field keeps its value.
Resolved_Unassigned(a, r) == Get(heap[a], r)

\* Line 96 and line 101: what the field is replaced by.
\* Line 101 without "|| null": entry?.id, undefined when there is no entry.
Resolved_NoNull(a, r) ==
  IF BranchOf(a, r) = "array"
  THEN Ids([k \in 1..Get(data[a], r).v[1] |-> entry[Child(a, r, k)]])
  ELSE IF entry[Child(a, r, 1)] = 0 THEN Absent ELSE Scalar(entry[Child(a, r, 1)])

\* Line 96 with the identifiers in the reverse of the input order.
Resolved_Reversed(a, r) ==
  IF BranchOf(a, r) = "array"
  THEN LET n == Get(data[a], r).v[1] IN Ids([k \in 1..n |-> entry[Child(a, r, n + 1 - k)]])
  ELSE IF entry[Child(a, r, 1)] = 0 THEN Null ELSE Scalar(entry[Child(a, r, 1)])

Resolved(a, r) ==
  IF BranchOf(a, r) = "array"
  THEN Ids([k \in 1..Get(data[a], r).v[1] |-> entry[Child(a, r, k)]])
  ELSE IF entry[Child(a, r, 1)] = 0 THEN Null ELSE Scalar(entry[Child(a, r, 1)])

\* Line 58: Promise.all(processingRelations) is fulfilled.
\* Line 58 without the await.
RelationsDone_NoAwait(a) == TRUE

RelationsDone(a) == \A r \in 1..NRel(a) : rel[a][r].st = "fulfilled"

\* Lines 61-64: where.id, 0 when data.id is falsy.
Where(node) == node.id

\* Line 72: if (!entry).
\* Line 72 always, and never, taking the fallback.
NoEntry_Always(found) == TRUE

NoEntry_Never(found) == FALSE

NoEntry(found) == ~found

(***************************************************************************)
(* The store: strapi.db.query(model).create / .update.                      *)
(***************************************************************************)
MaxOf(S) == IF S = {} THEN 0 ELSE CHOOSE x \in S : \A y \in S : y <= x

\* The identifier a create may give the new row: the next of the sequence,
\* or the one the payload carries when no row has it.
NewIds(rows, payload) ==
  {MaxOf(DOMAIN rows) + 1}
    \cup (IF payload.id # 0 /\ payload.id \notin DOMAIN rows THEN {payload.id} ELSE {})

\* A store call as issued: found tells whether a row with where.id exists
\* when the call is issued; res, row and seen are filled in when it returns.
\* Lines 68 and 73 passing a copy of the record without its id.
Call_StripId(op, a) ==
  [op |-> op, where |-> IF op = "update" THEN Where(heap[a]) ELSE 0,
   payload |-> IF op = "create" THEN [heap[a] EXCEPT !.id = 0] ELSE heap[a],
   found |-> op = "update" /\ Where(heap[a]) \in DOMAIN store[Coll(a)],
   res |-> "pending", row |-> 0, seen |-> <<>>]

Call(op, a) ==
  [op |-> op, where |-> IF op = "update" THEN Where(heap[a]) ELSE 0, payload |-> heap[a],
   found |-> op = "update" /\ Where(heap[a]) \in DOMAIN store[Coll(a)],
   res |-> "pending", row |-> 0, seen |-> <<>>]

\* The last call of a has returned res: row is the id of the row returned,
\* seen the object whose write had last stored the row an update matched.
Returned(cs, res, row, seen) ==
  [cs EXCEPT ![Len(cs)] = [@ EXCEPT !.res = res, !.row = row, !.seen = seen]]

(***************************************************************************)
(* The event loop: a promise continuation runs before the next store call   *)
(* completes.                                                               *)
(***************************************************************************)
Settled(a) == status[a] \in {"fulfilled", "rejected"}

\* The loop of lines 29-35 entered whether or not line 26 threw.
CanStart_AfterThrow(i) ==
  pc \in {"loop", "threw"} /\ i = Len(processed) + 1 /\ i <= N /\ status[<<i>>] = "idle"

CanStart(i) ==
  pc = "loop" /\ i = Len(processed) + 1 /\ i <= N /\ status[<<i>>] = "idle"

CanSettle(a, r) ==
  /\ rel[a][r].st = "pending"
  /\ \/ \E c \in Kids(a, r) : status[c] = "rejected"
     \/ \A c \in Kids(a, r) : status[c] = "fulfilled"

\* Lines 58-75 run again after the record's own store call threw.
CanAwait_Retry(a) ==
  /\ status[a] \in {"relations", "rejected"}
  /\ \/ \E r \in 1..NRel(a) : rel[a][r].st = "rejected"
     \/ RelationsDone(a)

CanAwait(a) ==
  /\ status[a] = "relations"
  /\ \/ \E r \in 1..NRel(a) : rel[a][r].st = "rejected"
     \/ RelationsDone(a)

\* Lines 30-34 resumed only by a fulfilled updateOrCreate.
CanCatch_Fulfilled(i) ==
  pc = "loop" /\ i = Len(processed) + 1 /\ i <= N /\ status[<<i>>] = "fulfilled"

CanCatch(i) == pc = "loop" /\ i = Len(processed) + 1 /\ i <= N /\ Settled(<<i>>)

CanReturn == pc = "loop" /\ Len(processed) = N

Quiescent ==
  /\ pc # "parse"
  /\ ~ CanReturn
  /\ \A a \in Nodes :
       /\ ~ CanAwait(a)
       /\ \A r \in 1..NRel(a) : ~ CanSettle(a, r)
       /\ Len(a) = 1 => ~ CanStart(a[1]) /\ ~ CanCatch(a[1])

(***************************************************************************)
(* importData, lines 25-44.                                                 *)
(***************************************************************************)
\* Line 26: parseInputData returns the parsed records or throws.
ParseInputData ==
  /\ pc = "parse"
  /\ \/ pc' = "loop"
     \/ pc' = "threw"
  /\ UNCHANGED <<data, heap, processed, report, status, rel, entry, error, calls, store>>

\* Lines 29-33: the loop body calls catchError, which calls
\* updateOrCreate(user, slug, datum); the call runs to its first await
\* (line 58) in every object it reaches.
StartRecord(i) ==
  /\ CanStart(i)
  /\ LET S == Reach(<<i>>) IN
       /\ heap' = [a \in Nodes |-> IF a \in S THEN AuditAssigned(a, heap[a]) ELSE heap[a]]
       /\ status' = [a \in Nodes |-> IF a \in S THEN "relations" ELSE status[a]]
       /\ rel' = [a \in Nodes |->
                    IF a \in S
                    THEN [r \in 1..NRel(a) |->
                            IF BranchOf(a, r) \in {"array", "object"}
                            THEN Pending ELSE Fulfilled]
                    ELSE rel[a]]
  /\ UNCHANGED <<data, pc, processed, report, entry, error, calls, store>>

\* What catchError returns for datum i once updateOrCreate has settled.
catchError(i) ==
  [success |-> status[<<i>>] = "fulfilled", error |-> error[<<i>>], args |-> <<i>>]

\* Lines 30-34: catchError returns and its result is pushed.
PushProcessed(i) ==
  /\ CanCatch(i)
  /\ processed' = Append(processed, catchError(i))
  /\ UNCHANGED <<data, heap, pc, report, status, rel, entry, error, calls, store>>

\* Line 38: the filter predicate.
\* Line 38 keeping the successes.
IsFailure_Success(p) == p.success

\* Line 39 dropping the error.
Failure_NoError(f) == [error |-> NoError, data |-> f.args]

IsFailure(p) == ~ p.success

\* Line 39: the failure entry; data is args[0], the datum object itself.
Failure(f) == [error |-> f.error, data |-> f.args]

\* Lines 37-43.
Return ==
  /\ CanReturn
  /\ LET failed == SelectSeq(processed, IsFailure) IN
       report' = [failures |-> [k \in 1..Len(failed) |-> Failure(failed[k])]]
  /\ pc' = "returned"
  /\ UNCHANGED <<data, heap, processed, status, rel, entry, error, calls, store>>

(***************************************************************************)
(* updateOrCreateRelation, lines 92-102, after its await.                   *)
(***************************************************************************)
RelationSettles(a, r) ==
  /\ CanSettle(a, r)
  /\ \/ \E c \in Kids(a, r) :
          /\ status[c] = "rejected"
          /\ rel' = [rel EXCEPT ![a][r] = Rejected(error[c])]
          /\ heap' = heap
     \/ /\ \A c \in Kids(a, r) : status[c] = "fulfilled"
        /\ IF BranchOf(a, r) = "array" /\ \E c \in Kids(a, r) : entry[c] = 0
           THEN \* line 96: entry.id of an undefined entry throws
                /\ rel' = [rel EXCEPT ![a][r] = Rejected(TypeError(a))]
                /\ heap' = heap
           ELSE /\ heap' = [heap EXCEPT ![a] = Set(@, r, Resolved(a, r))]
                /\ rel' = [rel EXCEPT ![a][r] = Fulfilled]
  /\ UNCHANGED <<data, pc, processed, report, status, entry, error, calls, store>>

(***************************************************************************)
(* updateOrCreate, lines 58-77.                                             *)
(***************************************************************************)
\* Line 58 returns; lines 60-70 issue the create or the update.
AwaitRelations(a) ==
  /\ CanAwait(a)
  /\ \/ \E r \in 1..NRel(a) :
          /\ rel[a][r].st = "rejected"
          /\ status' = [status EXCEPT ![a] = "rejected"]
          /\ error' = [error EXCEPT ![a] = rel[a][r].err]
          /\ calls' = calls
     \/ /\ \A r \in 1..NRel(a) : rel[a][r].st # "rejected"
        /\ RelationsDone(a)
        /\ LET op == IF Where(heap[a]) = 0 THEN "create" ELSE "update" IN
             /\ status' = [status EXCEPT ![a] = op]
             /\ calls' = [calls EXCEPT ![a] = Append(@, Call(op, a))]
        /\ error' = error
  /\ UNCHANGED <<data, heap, pc, processed, report, rel, entry, store>>

\* Line 70 returns or throws; lines 72-74 fall back to create.
UpdateReturns(a) ==
  /\ status[a] = "update"
  /\ Quiescent
  /\ \/ /\ status' = [status EXCEPT ![a] = "rejected"]
        /\ error' = [error EXCEPT ![a] = StoreError("update", a)]
        /\ calls' = [calls EXCEPT ![a] = Returned(@, "threw", 0, <<>>)]
        /\ UNCHANGED <<entry, store>>
     \/ LET c == Coll(a)
            id == Where(heap[a])
            found == id \in DOMAIN store[c]
            done == IF found THEN Returned(calls[a], "row", id, store[c][id].by)
                             ELSE Returned(calls[a], "none", 0, <<>>)
        IN /\ store' = IF found THEN [store EXCEPT ![c][id] = Row(heap[a], a)] ELSE store
           /\ IF NoEntry(found)
              THEN /\ status' = [status EXCEPT ![a] = "create"]
                   /\ calls' = [calls EXCEPT ![a] = Append(done, Call("create", a))]
                   /\ entry' = entry
              ELSE /\ status' = [status EXCEPT ![a] = "fulfilled"]
                   /\ entry' = [entry EXCEPT ![a] = id]
                   /\ calls' = [calls EXCEPT ![a] = done]
           /\ error' = error
  /\ UNCHANGED <<data, heap, pc, processed, report, rel>>

\* Line 68 or line 73 returns or throws; line 77.
CreateReturns(a) ==
  /\ status[a] = "create"
  /\ Quiescent
  /\ \/ /\ status' = [status EXCEPT ![a] = "rejected"]
        /\ error' = [error EXCEPT ![a] = StoreError("create", a)]
        /\ calls' = [calls EXCEPT ![a] = Returned(@, "threw", 0, <<>>)]
        /\ UNCHANGED <<entry, store>>
     \/ \E id \in NewIds(store[Coll(a)], heap[a]) :
          /\ store' = [store EXCEPT ![Coll(a)] = (id :> Row(heap[a], a)) @@ @]
          /\ status' = [status EXCEPT ![a] = "fulfilled"]
          /\ entry' = [entry EXCEPT ![a] = id]
          /\ calls' = [calls EXCEPT ![a] = Returned(@, "row", id, <<>>)]
          /\ error' = error
  /\ UNCHANGED <<data, heap, pc, processed, report, rel>>

\* Line 68 or line 73 returns no entry (null or undefined), whether or not
\* the store has stored the row; line 77 returns it.
CreateReturnsNothing(a) ==
  /\ status[a] = "create"
  /\ Quiescent
  /\ \/ store' = store
     \/ \E id \in NewIds(store[Coll(a)], heap[a]) :
          store' = [store EXCEPT ![Coll(a)] = (id :> Row(heap[a], a)) @@ @]
  /\ status' = [status EXCEPT ![a] = "fulfilled"]
  /\ calls' = [calls EXCEPT ![a] = Returned(@, "none", 0, <<>>)]
  /\ UNCHANGED <<data, heap, pc, processed, report, rel, entry, error>>

Init == Start(SingleInputs)

InitBatch == Start(BatchInputs)

Next ==
  \/ ParseInputData
  \/ \E i \in 1..N : StartRecord(i)
  \/ \E i \in 1..N : PushProcessed(i)
  \/ Return
  \/ \E a \in Nodes : \E r \in 1..NRel(a) : RelationSettles(a, r)
  \/ \E a \in Nodes : AwaitRelations(a)
  \/ \E a \in Nodes : UpdateReturns(a)
  \/ \E a \in Nodes : CreateReturns(a)

\* importData called on one record.
Spec == Init /\ [][Next]_vars

\* importData called on a batch of several records.
SpecBatch == InitBatch /\ [][Next]_vars

\* One record, in the shapes of a batch's records.
NarrowInputs == UNION { Batches(1, n, FALSE) : n \in 0..MaxNested }

InitNoEntry == Start(NarrowInputs)

NextNoEntry == Next \/ \E a \in Nodes : CreateReturnsNothing(a)

\* importData called on one record against a store whose create may
\* return no entry.
SpecNoEntry == InitNoEntry /\ [][NextNoEntry]_vars

\* The event loop runs every continuation that is ready, and every store
\* call eventually returns or throws.
Fairness ==
  /\ WF_vars(ParseInputData)
  /\ WF_vars(\E i \in 1..N : StartRecord(i))
  /\ WF_vars(\E i \in 1..N : PushProcessed(i))
  /\ WF_vars(Return)
  /\ WF_vars(\E a \in Nodes : \E r \in 1..NRel(a) : RelationSettles(a, r))
  /\ WF_vars(\E a \in Nodes : AwaitRelations(a))
  /\ WF_vars(\E a \in Nodes : UpdateReturns(a))
  /\ WF_vars(\E a \in Nodes : CreateReturns(a))

\* A batch of several records; the more records the bounds allow, the
\* fewer nested values, which keeps the behaviour graph small.
FairInputs ==
  UNION { Batches(k, n, FALSE) : k \in 2..MaxRecords, n \in 0..(MaxNested + 2 - MaxRecords) }

InitFair == Start(FairInputs)

\* importData called on a batch, every step that can be taken eventually
\* taken.
SpecFair == InitFair /\ [][Next]_vars /\ Fairness

(***************************************************************************)
(* Properties.                                                              *)
(***************************************************************************)
Under(a, x) == Len(a) <= Len(x) /\ SubSeq(x, 1, Len(a)) = a
Issued(a) == calls[a] # <<>>
FieldTags(node) == {node.f[r].t : r \in 1..Len(node.f)}

\* C1: a record's own store write (create or update) is issued only after
\* every one of its relation resolutions has completed, nested writes
\* included, at any depth: whenever a call has been issued for an object,
\* each of its relation promises is fulfilled, each nested object it
\* reconciles is fulfilled, and no payload it passed to the store holds a
\* nested object or an array of nested objects.
C1_RelationsBeforeWrite ==
  \A a \in Nodes : Issued(a) =>
    /\ \A r \in 1..NRel(a) :
         /\ rel[a][r].st = "fulfilled"
         /\ \A c \in Kids(a, r) : status[c] = "fulfilled" /\ Issued(c)
    /\ \A k \in 1..Len(calls[a]) : FieldTags(calls[a][k].payload) \cap {"obj", "arr"} = {}

\* A nested object that itself has a nested object has been written, and so
\* has its parent.
C1_Witness ==
  \E a \in Nodes :
    /\ Len(a) > 1 /\ Issued(a) /\ Issued(Parent(a))
    /\ \E r \in 1..NRel(a) : Kids(a, r) # {}

\* C5: for a record with a truthy id whose row exists in the store when the
\* update is issued, updateOrCreate issues exactly one update, where
\* id = record.id, and no create; the entry it returns is that row.
C5_UpdateOnly ==
  \A a \in Nodes :
    (data[a].kind = "obj" /\ data[a].id # 0 /\ Issued(a)) =>
      /\ calls[a][1].op = "update" /\ calls[a][1].where = data[a].id
      /\ calls[a][1].found =>
           /\ Len(calls[a]) = 1
           /\ calls[a][1].res \in {"pending", "row", "threw"}
           /\ status[a] = "fulfilled" => entry[a] = data[a].id

\* A record whose id exists has been updated, at the top level and nested.
C5_Witness ==
  /\ \E a \in Nodes : Len(a) = 1 /\ status[a] = "fulfilled" /\ calls[a][1].found
  /\ \E a \in Nodes : Len(a) > 1 /\ status[a] = "fulfilled" /\ calls[a][1].found

AuditRels(a) == {r \in 1..NRel(a) : IsAudit(Relations(Coll(a))[r])}

\* C7: whatever the input holds in createdBy / updatedBy, every payload a
\* record passes to the store, and so every row it writes, carries the
\* acting user's id there, and the input value of those fields triggers no
\* reconciliation and no store write.
C7_AuditOverwritten ==
  /\ \A a \in Nodes : data[a].kind = "obj" =>
       \A r \in AuditRels(a) :
         /\ \A k \in 1..Len(calls[a]) : calls[a][k].payload.f[r] = Scalar(user.id)
         /\ \A c \in Nodes : Under(Child(a, r, 1), c) => status[c] = "idle" /\ ~ Issued(c)
  /\ \A m \in Collections : \A id \in DOMAIN store[m] :
       LET row == store[m][id] IN
       (row.by # <<>> /\ row.data.kind = "obj") =>
         \A r \in AuditRels(row.by) : row.data.f[r] = Scalar(user.id)
  /\ store["U"] = EmptyHeap

\* Records whose createdBy was a nested object, an array, a scalar and null
\* in the input have been stored.
C7_Witness ==
  \E a \in Nodes : \E r \in AuditRels(a) :
    /\ Get(data[a], r).t \in {"obj", "arr"}
    /\ status[a] = "fulfilled"
    /\ store[Coll(a)][entry[a]].by = a

\* C9: for a record whose single-valued relation field holds a nested object
\* without id, the related record is created in the relation's target
\* collection before the parent is persisted, and the parent's payload
\* holds the identifier of that new row in the field, not the object.
C9_NestedCreatedFirst ==
  \A a \in Nodes : \A r \in 1..NRel(a) :
    LET c == Child(a, r, 1)
        target == Relations(Coll(a))[r].target
    IN (BranchOf(a, r) = "object" /\ data[c].id = 0 /\ Issued(a)) =>
         /\ Len(calls[c]) = 1 /\ calls[c][1].op = "create" /\ calls[c][1].res = "row"
         /\ entry[c] = calls[c][1].row
         /\ entry[c] # 0 /\ entry[c] \in DOMAIN store[target]
         /\ \A k \in 1..Len(calls[a]) : calls[a][k].payload.f[r] = Scalar(entry[c])

\* Such a parent has been stored with the identifier in the field.
C9_Witness ==
  \E a \in Nodes : \E r \in 1..NRel(a) :
    /\ BranchOf(a, r) = "object" /\ data[Child(a, r, 1)].id = 0
    /\ status[a] = "fulfilled"
    /\ store[Coll(a)][entry[a]].data.f[r] = Scalar(entry[Child(a, r, 1)])

\* C6 as stated: a record with a truthy id that is not in the store is first
\* updated, then created when the update returns nothing, and the stored
\* record has an identifier different from the supplied id.
C6_Original ==
  \A a \in Nodes :
    (data[a].kind = "obj" /\ data[a].id # 0 /\ Issued(a)) =>
      /\ calls[a][1].op = "update" /\ calls[a][1].where = data[a].id
      /\ calls[a][1].res = "none" =>
           /\ Len(calls[a]) = 2 /\ calls[a][2].op = "create"
           /\ status[a] = "fulfilled" => entry[a] # data[a].id

\* C6 as amended: a record with a truthy id is first updated where
\* id = record.id; when the update returns nothing, and only then, a create
\* follows, and the entry returned is the row the create stored under the
\* identifier the store chose, which may equal the supplied id.
C6_FallbackCreate ==
  \A a \in Nodes :
    (data[a].kind = "obj" /\ data[a].id # 0 /\ Issued(a)) =>
      /\ calls[a][1].op = "update" /\ calls[a][1].where = data[a].id
      /\ calls[a][1].res = "none" =>
           /\ Len(calls[a]) = 2 /\ calls[a][2].op = "create"
           /\ calls[a][2].res = "row" =>
                /\ status[a] = "fulfilled" /\ entry[a] = calls[a][2].row
                /\ entry[a] # 0 /\ entry[a] \in DOMAIN store[Coll(a)]
      /\ Len(calls[a]) = 2 => calls[a][1].res = "none"

\* A fallback create has stored the record under the very id it supplied.
C6_Witness ==
  \E a \in Nodes :
    /\ data[a].id # 0 /\ Len(calls[a]) = 2 /\ status[a] = "fulfilled"
    /\ entry[a] = data[a].id

NonAuditRels(a) == (1..NRel(a)) \ AuditRels(a)

\* The record at a is one already upserted: its id is a stored row and its
\* relation fields hold identifiers of stored rows, a scalar or a sequence.
AlreadyUpserted(a) ==
  /\ Len(a) = 1 /\ data[a].id \in DOMAIN InitialStore[Coll(a)]
  /\ \A r \in NonAuditRels(a) :
       LET val == Get(data[a], r) IN
       \/ val.t = "scalar" /\ val.v[1] \in DOMAIN InitialStore[Relations(Coll(a))[r].target]
       \/ /\ val.t = "arr"
          /\ \A k \in 1..val.v[1] :
               /\ data[Child(a, r, k)].kind = "prim"
               /\ data[Child(a, r, k)].prim \in DOMAIN InitialStore[Relations(Coll(a))[r].target]

\* C8: reconciling an already upserted record again issues an update to the
\* same row and creates no row in any collection.
C8_Idempotent ==
  \A a \in Nodes : AlreadyUpserted(a) =>
    /\ \A x \in Nodes : \A k \in 1..Len(calls[x]) : calls[x][k].op # "create"
    /\ \A m \in Collections : DOMAIN store[m] = DOMAIN InitialStore[m]
    /\ Issued(a) => calls[a][1].op = "update" /\ calls[a][1].found

\* The object at x holds what it held when parsed (an array of identifiers
\* equals a new array of the same identifiers).
SameValue(x, r) ==
  LET was == Get(data[x], r)
      now == Get(heap[x], r)
  IN \/ now = was
     \/ /\ was.t = "arr" /\ now.t = "ids" /\ Len(now.v) = was.v[1]
        /\ \A k \in 1..was.v[1] :
             /\ data[Child(x, r, k)].kind = "prim"
             /\ data[Child(x, r, k)].prim = now.v[k]

SameAsParsed(a) ==
  \A x \in Nodes : Under(a, x) =>
    /\ heap[x].kind = data[x].kind /\ heap[x].id = data[x].id
    /\ \A r \in 1..Len(data[x].f) : SameValue(x, r)

\* C2: the data of every failure importData returns is the input record as
\* it was parsed, no relation field replaced and no audit field overwritten.
C2_FailureDataUnmutated ==
  pc = "returned" =>
    \A k \in 1..Len(report.failures) : SameAsParsed(report.failures[k].data)

InFlight(a) == status[a] \in {"relations", "update", "create"}

\* C4: store calls are pending or in flight for at most one top-level
\* record: once record i+1 has started, nothing of record i is.
C4_OneRecordInFlight ==
  \A a \in Nodes : InFlight(a) =>
    \A j \in 1..N : j > a[1] => status[<<j>>] = "idle"

Tops == [i \in 1..N |-> <<i>>]
IsRejected(a) == status[a] = "rejected"

\* C10: records are processed strictly in input order, and the failures
\* returned are exactly the records whose reconciliation was rejected, one
\* entry each, in input order.
C10_FailuresInOrder ==
  /\ \A i \in 1..N : status[<<i>>] # "idle" =>
       \A j \in 1..(i - 1) : Settled(<<j>>) /\ Len(processed) >= j
  /\ \A k \in 1..Len(processed) :
       processed[k].args = <<k>> /\ processed[k].success = (status[<<k>>] = "fulfilled")
  /\ pc = "returned" =>
       /\ Len(processed) = N
       /\ Len(report.failures) <= N
       /\ [k \in 1..Len(report.failures) |-> report.failures[k].data]
            = SelectSeq(Tops, IsRejected)

\* A batch whose first record failed and whose second succeeded has returned.
C10_Witness ==
  /\ pc = "returned" /\ N >= 2
  /\ status[<<1>>] = "rejected" /\ status[<<2>>] = "fulfilled"
  /\ Len(report.failures) = 1

\* C3 as amended: a record whose reconciliation is rejected, by a nested
\* write or by its own, is recorded in failures with that error; importData
\* never throws for it and still reconciles every later record. (The rows
\* the failed record had already written stay, and later records see them.)
C3_Isolation ==
  /\ pc = "threw" => processed = <<>> /\ \A a \in Nodes : status[a] = "idle"
  /\ \A k \in 1..Len(processed) :
       status[<<k>>] = "rejected" =>
         /\ processed[k] = [success |-> FALSE, error |-> error[<<k>>], args |-> <<k>>]
         /\ error[<<k>>].op \in {"create", "update"}
         /\ Under(<<k>>, error[<<k>>].node)
         /\ calls[error[<<k>>].node][Len(calls[error[<<k>>].node])].res = "threw"
  /\ pc = "returned" =>
       \A i \in 1..N :
         /\ Settled(<<i>>)
         /\ status[<<i>>] = "rejected" =>
              \E k \in 1..Len(report.failures) :
                report.failures[k] = [error |-> error[<<i>>], data |-> <<i>>]

\* No update of a record matched a row that a failed record had written.
UnseenFailures ==
  \A a \in Nodes : \A k \in 1..Len(calls[a]) :
    LET w == calls[a][k].seen IN
    (w # <<>> /\ w[1] # a[1]) => status[<<w[1]>>] # "rejected"

\* C3 as stated: moreover the outcome and the store writes of every other
\* record are what they would be without the failing record, so no other
\* record's update finds a row the failing record wrote.
C3_Original == C3_Isolation /\ (pc = "returned" => UnseenFailures)

\* The first record failed after a nested write, and the second record,
\* reconciled all the same, updated the row that write had stored.
C3_Witness ==
  /\ pc = "returned" /\ status[<<1>>] = "rejected" /\ status[<<2>>] = "fulfilled"
  /\ \E a \in Nodes : \E k \in 1..Len(calls[a]) :
       a[1] = 2 /\ calls[a][k].seen # <<>> /\ calls[a][k].seen[1] = 1

\* C11: for a record whose multi-valued relation field is the empty array,
\* the field takes the array branch and is replaced by an empty array of
\* identifiers; nothing is reconciled and nothing is written in the
\* relation's target collection, and every payload the record passes to
\* the store, and the row stored, holds the empty array in the field.
C11_EmptyArray ==
  \A a \in Nodes : \A r \in NonAuditRels(a) :
    Get(data[a], r) = Arr(0) =>
      /\ BranchOf(a, r) = "array" /\ Kids(a, r) = {}
      /\ N = 1 => store[Relations(Coll(a))[r].target]
                    = InitialStore[Relations(Coll(a))[r].target]
      /\ rel[a][r].st = "fulfilled" => Get(heap[a], r) = Ids(<<>>)
      /\ \A k \in 1..Len(calls[a]) : calls[a][k].payload.f[r] = Ids(<<>>)
      /\ status[a] = "fulfilled" => store[Coll(a)][entry[a]].data.f[r] = Ids(<<>>)

\* A record given with an empty array has been created, another updated.
C11_Witness ==
  \E a \in Nodes : \E r \in NonAuditRels(a) :
    /\ Get(data[a], r) = Arr(0) /\ status[a] = "fulfilled"
    /\ store[Coll(a)][entry[a]] = Row(heap[a], a)
    /\ heap[a].f[r] = Ids(<<>>)

\* C12: for a relation field holding an array of nested records, every
\* element is reconciled in the relation's target collection, and once
\* they have all succeeded the field is an array of as many identifiers,
\* position k being the identifier of the row the store returned for
\* element k, whatever order the elements' store calls completed in; that
\* array is what the record then passes to the store.
C12_ArrayInOrder ==
  \A a \in Nodes : \A r \in NonAuditRels(a) :
    LET val == Get(data[a], r)
        target == Relations(Coll(a))[r].target
        elems == [k \in 1..val.v[1] |-> Child(a, r, k)]
    IN (val.t = "arr" /\ val.v[1] >= 1 /\ \A k \in DOMAIN elems : data[elems[k]].kind = "obj") =>
         /\ Kids(a, r) = {elems[k] : k \in DOMAIN elems}
         /\ \A k \in DOMAIN elems : Coll(elems[k]) = target
         /\ rel[a][r].st = "fulfilled" =>
              /\ Get(heap[a], r).t = "ids" /\ Len(Get(heap[a], r).v) = Len(elems)
              /\ \A k \in DOMAIN elems :
                   LET c == elems[k] IN
                   /\ status[c] = "fulfilled"
                   /\ calls[c][Len(calls[c])].res = "row"
                   /\ entry[c] = calls[c][Len(calls[c])].row
                   /\ entry[c] \in DOMAIN store[target]
                   /\ Get(heap[a], r).v[k] = entry[c]
         /\ \A j \in 1..Len(calls[a]) :
              calls[a][j].payload.f[r] = Ids([k \in DOMAIN elems |-> entry[elems[k]]])

\* A record has been stored whose two nested elements were created in the
\* reverse of their input order.
C12_Witness ==
  \E a \in Nodes : \E r \in NonAuditRels(a) :
    /\ Get(data[a], r) = Arr(2) /\ status[a] = "fulfilled"
    /\ data[Child(a, r, 1)].kind = "obj" /\ data[Child(a, r, 2)].kind = "obj"
    /\ entry[Child(a, r, 1)] > entry[Child(a, r, 2)]
    /\ store[Coll(a)][entry[a]].data.f[r]
         = Ids(<<entry[Child(a, r, 1)], entry[Child(a, r, 2)]>>)

\* C13: for a record whose non-audit relation field is absent, null or a
\* scalar, updateOrCreateRelation takes no branch: it awaits nothing, calls
\* updateOrCreate on nothing, the field keeps its input value at all times,
\* every payload the record passes to the store holds that value, and (for
\* a record imported alone) the relation's target collection is untouched.
C13_PlainUntouched ==
  \A a \in Nodes : \A r \in NonAuditRels(a) :
    (data[a].kind = "obj" /\ Get(data[a], r).t \in {"absent", "null", "scalar"}) =>
      /\ BranchOf(a, r) = "none" /\ Kids(a, r) = {}
      /\ rel[a][r].st \in {"idle", "fulfilled"}
      /\ Get(heap[a], r) = Get(data[a], r)
      /\ \A k \in 1..Len(calls[a]) : calls[a][k].payload.f[r] = Get(data[a], r)
      /\ (Len(a) = 1 /\ N = 1) =>
           store[Relations(Coll(a))[r].target] = InitialStore[Relations(Coll(a))[r].target]

\* A record given with null in the field has been stored with null there.
C13_Witness ==
  \E a \in Nodes : \E r \in NonAuditRels(a) :
    /\ Get(data[a], r) = Null /\ status[a] = "fulfilled"
    /\ store[Coll(a)][entry[a]] = Row(heap[a], a)
    /\ heap[a].f[r] = Null

\* The calls of the objects of collection m that returned the row id.
Writes(m, id) ==
  { <<x, j>> \in UNION { {x} \X (1..Len(calls[x])) : x \in Nodes } :
      Coll(x) = m /\ calls[x][j].res = "row" /\ calls[x][j].row = id }

\* C14: once the reconciliation of a top-level record has failed, none of
\* its own store calls has returned a row and (for a record imported alone)
\* its collection is as it was; every row a nested write of the record had
\* stored is still in the store, holding the payload of a write that
\* returned that row (its own payload when no other write returned the
\* row): nothing is deleted and nothing is written in compensation.
C14_NoRollback ==
  \A a \in Nodes : status[<<a[1]>>] = "rejected" =>
    /\ Len(a) = 1 =>
         /\ \A k \in 1..Len(calls[a]) : calls[a][k].res # "row"
         /\ \A id \in DOMAIN store[Coll(a)] : store[Coll(a)][id].by # a
         /\ N = 1 => store[Coll(a)] = InitialStore[Coll(a)]
    /\ \A k \in 1..Len(calls[a]) :
         calls[a][k].res = "row" =>
           LET m == Coll(a)
               id == calls[a][k].row
           IN /\ id \in DOMAIN store[m]
              /\ \E w \in Writes(m, id) : store[m][id] = Row(calls[w[1]][w[2]].payload, w[1])
              /\ Writes(m, id) = {<<a, k>>} => store[m][id] = Row(heap[a], a)

\* A record has failed on its own write after a nested record of it was
\* created, and the nested row is in the store.
C14_Witness ==
  /\ status[<<1>>] = "rejected" /\ calls[<<1>>] # <<>>
  /\ \E a \in Nodes :
       /\ Len(a) > 1 /\ calls[a] # <<>> /\ calls[a][Len(calls[a])].op = "create"
       /\ status[a] = "fulfilled" /\ store[Coll(a)][entry[a]] = Row(heap[a], a)

\* C15: when a record has issued two store calls, the first is an update
\* where id = record.id that returned nothing and the second a create whose
\* payload is the payload of the update, the record as it is then, with
\* the id it was given (truthy, and matching no row) still in it.
C15_FallbackPayload ==
  \A a \in Nodes : Len(calls[a]) = 2 =>
    /\ calls[a][1].op = "update" /\ calls[a][1].res = "none"
    /\ calls[a][2].op = "create"
    /\ calls[a][2].payload = calls[a][1].payload
    /\ calls[a][2].payload = heap[a]
    /\ calls[a][2].payload.id = data[a].id /\ data[a].id # 0
    /\ calls[a][1].where = calls[a][2].payload.id

\* A fallback create has stored a record under an identifier other than
\* the id its payload carries.
C15_Witness ==
  \E a \in Nodes :
    /\ Len(calls[a]) = 2 /\ calls[a][2].res = "row"
    /\ calls[a][2].row # data[a].id
    /\ store[Coll(a)][calls[a][2].row] = Row(calls[a][1].payload, a)

Ops(a, op) == {k \in 1..Len(calls[a]) : calls[a][k].op = op}

\* C16: every record, at any depth, issues at most one update and at most
\* one create; a second call is a create that follows an update which
\* returned nothing; a call that threw is the record's last, and rejects
\* its updateOrCreate with that error; and once the enclosing top-level
\* record has settled it is rejected, reported as not successful, and
\* listed in the failures returned.
C16_NoRetry ==
  \A a \in Nodes :
    /\ Cardinality(Ops(a, "update")) <= 1 /\ Cardinality(Ops(a, "create")) <= 1
    /\ \A k \in 2..Len(calls[a]) :
         /\ calls[a][k].op = "create"
         /\ calls[a][k - 1].op = "update" /\ calls[a][k - 1].res = "none"
    /\ \A k \in 1..Len(calls[a]) :
         calls[a][k].res = "threw" =>
           /\ k = Len(calls[a])
           /\ status[a] = "rejected" /\ error[a] = StoreError(calls[a][k].op, a)
           /\ Settled(<<a[1]>>) => status[<<a[1]>>] = "rejected"
           /\ a[1] <= Len(processed) => ~ processed[a[1]].success
           /\ pc = "returned" =>
                \E j \in 1..Len(report.failures) : report.failures[j].data = <<a[1]>>

\* The fallback create of a nested record threw, and importData has
\* returned the enclosing record as a failure.
C16_Witness ==
  /\ pc = "returned" /\ Len(report.failures) = 1
  /\ \E a \in Nodes :
       /\ Len(a) > 1 /\ Len(calls[a]) = 2 /\ calls[a][2].res = "threw"
       /\ report.failures[1] = [error |-> StoreError("create", a), data |-> <<a[1]>>]

\* C17: when parseInputData has thrown, importData has thrown with it: it
\* has returned no report, no record at any depth has been handed to
\* updateOrCreate or mutated, no store call has been issued and the store
\* is as it was.
C17_ParseFails ==
  pc = "threw" =>
    /\ report = [failures |-> <<>>] /\ processed = <<>>
    /\ heap = data /\ store = InitialStore
    /\ \A a \in Nodes :
         /\ status[a] = "idle" /\ calls[a] = <<>> /\ entry[a] = 0
         /\ \A r \in 1..NRel(a) : rel[a][r].st = "idle"

\* Parsing has failed on a batch that holds nested records.
C17_Witness == pc = "threw" /\ \E a \in Nodes : Len(a) > 1 /\ data[a].kind = "obj"

\* The reconciliation of the object at a has yielded no record.
NoRecord(a) == status[a] = "fulfilled" /\ entry[a] = 0

\* C18: for a single-valued relation field holding a nested record whose
\* reconciliation yields no record, the relation is resolved, not rejected:
\* the field is null once resolved, and null, not undefined, in every
\* payload the parent passes to the store; if the parent is rejected it is
\* by a store call of its own or by another relation, not by this one.
C18_NullForNoRecord ==
  \A a \in Nodes : \A r \in NonAuditRels(a) :
    (BranchOf(a, r) = "object" /\ NoRecord(Child(a, r, 1))) =>
      /\ rel[a][r].st \in {"pending", "fulfilled"}
      /\ rel[a][r].st = "fulfilled" => Get(heap[a], r) = Null
      /\ \A k \in 1..Len(calls[a]) : calls[a][k].payload.f[r] = Null
      /\ status[a] = "rejected" =>
           error[a] # TypeError(a) /\ ~ Under(Child(a, r, 1), error[a].node)

\* The create of a nested record returned no entry, and its parent has been
\* stored with null in the field.
C18_Witness ==
  \E a \in Nodes : \E r \in NonAuditRels(a) :
    /\ BranchOf(a, r) = "object" /\ NoRecord(Child(a, r, 1))
    /\ status[a] = "fulfilled" /\ entry[a] # 0
    /\ store[Coll(a)][entry[a]].data.f[r] = Null

\* The error is one a store call threw, as it was thrown.
IsStoreError(e) == \E a \in Nodes : e \in {StoreError("create", a), StoreError("update", a)}

\* C19: the error a top-level updateOrCreate is rejected with, which is
\* what reaches importData's loop and what the failure entry holds, is
\* never the raw error a store call threw (it would be a ReconcileError
\* wrapping it).
C19_ErrorsWrapped ==
  /\ \A i \in 1..N : status[<<i>>] = "rejected" => ~ IsStoreError(error[<<i>>])
  /\ \A k \in 1..Len(report.failures) : ~ IsStoreError(report.failures[k].error)

\* importData has returned, having called updateOrCreate on every top-level
\* record, once each, in order, and seen every one of those calls settle.
ReturnedAll ==
  /\ pc = "returned" /\ Len(processed) = N
  /\ \A i \in 1..N : processed[i].args = <<i>> /\ Settled(<<i>>)

\* C20: once the batch is parsed, if every store call eventually returns or
\* throws, importData eventually returns its report, after the
\* reconciliation of every top-level record was started exactly once and
\* has settled.
C20_Terminates == (pc = "loop") ~> ReturnedAll

\* importData has returned from a batch whose first record failed while a
\* nested write of it was still in flight.
C20_Witness ==
  /\ ReturnedAll /\ N >= 2 /\ status[<<1>>] = "rejected"
  /\ \E a \in Nodes : a[1] = 1 /\ InFlight(a)

====
